---------------------------- MODULE Spec2Model ----------------------------
(***************************************************************************)
(* Model of the kitbash OBJ8 merge library (kitbash.cpp): the tokenizer,   *)
(* the parser, the index adjusters and the merge assembler, driven by the  *)
(* read / validate / parse / merge sequence of kitbash_merge_to_file.      *)
(* The helpers are also called on their own (TokenizeSpec, ParseSpec,      *)
(* AdjustSpec, ComposeSpec, ValidateSpec, ConfirmSpec), CountedSpec merges *)
(* files whose headers are compared with their VT records, and ApiSpec     *)
(* runs the entry points of the C API, the C++ API and the command line    *)
(* tool against a disk.                                                    *)
(*                                                                         *)
(* A std::string is a sequence of one-character strings, so that           *)
(* whitespace splitting, substring search, numeric parsing and decimal     *)
(* formatting are computed character by character as the code does.       *)
(* An int is a 32-bit two's complement integer.                            *)
(***************************************************************************)
EXTENDS Integers, Sequences, FiniteSets, TLC

VARIABLES
    base_lines,      \* kitbash_merge_to_file: base_lines (read_file result)
    addition_lines,  \* kitbash_merge_to_file: addition_lines
    base_info,       \* kitbash_merge_to_file: base_info (ObjInfo)
    addition_info,   \* kitbash_merge_to_file: addition_info (ObjInfo)
    merged_lines,    \* kitbash_merge_to_file: merged_lines
    origin,          \* history: for each merged line, the pass and record it came from
    pc,              \* position inside the call
    fn,              \* a helper called on its own: its name, "" when none is
    arg,             \* the arguments of that call
    ret,             \* its return: done once it has returned, and the value
    disk,            \* the files that exist, by name, with their lines
    disk0,           \* history: the files when the call began
    env,             \* the files that cannot be opened for reading / for writing
    last_error,      \* g_last_error
    log,             \* history: the file operations performed, in order
    stats            \* the MergeStats the caller passed

\* the variables of the merge call and those of a helper call
merge_vars == <<base_lines, addition_lines, base_info, addition_info, merged_lines, origin, pc>>
data_vars == <<base_lines, addition_lines, base_info, addition_info, merged_lines, origin>>
call_vars == <<fn, arg, ret>>
api_vars == <<disk, disk0, env, last_error, log, stats>>

vars == <<merge_vars, call_vars, api_vars>>

----------------------------------------------------------------------------
(* Bounds of the model *)

\* Total number of lines that follow the three-line preamble, over both files.
MaxLines == 4

\* Longest line handed to tokenize on its own.
MaxTokLen == 5

\* Most lines of a file handed to parse_obj on its own.
MaxParseLines == 3

\* Most reference tokens of a line handed to adjust_indices_line on its own.
MaxRefs == 2

\* Most lines of a file handed to validate_obj_format on its own.
MaxValLines == 4

\* Most lines after the preamble of an input file whose header is compared
\* with its VT records.
MaxCountedLines == 3

\* Most reference tokens of a line adjusted twice.
MaxComposeRefs == 2

\* Longest answer typed at the confirmation prompt.
MaxAnswerLen == 3

----------------------------------------------------------------------------
(* int: 32-bit signed *)

IntMax == 2147483647
IntMin == (0 - IntMax) - 1

\* std::string::npos
npos == -1

\* a + b overflows int (computed without leaving the int range)
AddOverflows(a, b) ==
    \/ (b > 0 /\ a > IntMax - b)
    \/ (b < 0 /\ a < IntMin - b)

\* a + b as a two's complement build computes it (wrap-around on overflow)
IntAdd(a, b) ==
    IF b > 0 /\ a > IntMax - b THEN ((a - IntMax) - 1) + (b + IntMin)
    ELSE IF b < 0 /\ a < IntMin - b THEN ((a - IntMin) + 1) + (b + IntMax)
    ELSE a + b

----------------------------------------------------------------------------
(* Characters and strings *)

Digits == <<"0", "1", "2", "3", "4", "5", "6", "7", "8", "9">>

\* std::isspace in the "C" locale, as used by operator>> of istringstream
IsSpace(c) == c \in {" ", "\t", "\n", "\r"}

IsDigit(c) == \E d \in 1..10 : Digits[d] = c

DigitVal(c) == (CHOOSE d \in 1..10 : Digits[d] = c) - 1

TAB == <<"\t">>
SP == <<" ">>

\* string literals of the code
POINT_COUNTS == <<"P","O","I","N","T","_","C","O","U","N","T","S">>
VT == <<"V","T">>
IDX == <<"I","D","X">>
IDX10 == <<"I","D","X","1","0">>
TRIS == <<"T","R","I","S">>
ATTR_draw_enable == <<"\t","A","T","T","R","_","d","r","a","w","_","e","n","a","b","l","e">>
ATTR_cockpit == <<"\t","A","T","T","R","_","c","o","c","k","p","i","t">>
V800 == <<"8","0","0">>
OBJ == <<"O","B","J">>

\* The first three lines of an OBJ8 file: "A", "800", "OBJ"
Preamble == << <<"A">>, V800, OBJ >>

\* A file that validate_obj_format rejects: the version line is missing
ShortFile == << <<"A">>, OBJ >>

\* Lines of the base file after the preamble
BasePool == {
    POINT_COUNTS \o SP \o <<"1","0","0">> \o SP \o <<"5","0">> \o SP \o <<"0">> \o SP \o <<"4","0">>,
    POINT_COUNTS \o SP \o <<"2","1","4","7","4","8","3","6","4","7">> \o SP \o <<"0">> \o SP \o <<"0">> \o SP \o <<"1">>,
    POINT_COUNTS \o SP \o <<"7">> \o SP \o <<"0">> \o SP \o <<"0">>,
    <<"T","E","X","T","U","R","E">> \o SP \o POINT_COUNTS \o <<".","p","n","g">>,
    VT \o SP \o <<"0">> \o SP \o <<"0">> \o SP \o <<"1">>,
    IDX \o SP \o SP \o <<"0">> \o SP \o <<"1">>,
    ATTR_cockpit }

\* Lines of the addition file after the preamble
AddPool == {
    POINT_COUNTS \o SP \o <<"2","0">> \o SP \o <<"1","0">> \o SP \o <<"0">> \o SP \o <<"5">>,
    VT \o SP \o <<"9">> \o SP \o <<"9">> \o SP \o <<"9">>,
    IDX \o SP \o <<"0">> \o SP \o <<"1">> \o SP \o <<"2">>,
    IDX10 \o SP \o <<"-","4">> \o SP \o <<"3","x">>,
    TAB \o TAB \o TRIS \o TAB \o <<"5">> \o TAB \o <<"3">>,
    TRIS \o SP \o <<"5">> \o SP \o <<"3">> \o SP \o <<"9">>,
    ATTR_draw_enable }

\* Lines of the input files
InputLines == BasePool \cup AddPool \cup {Preamble[i] : i \in 1..3}

\* pat occurs in line at 0-based position p
MatchAt(line, pat, p) ==
    /\ p + Len(pat) <= Len(line)
    /\ \A k \in 1..Len(pat) : line[p + k] = pat[k]

\* std::string::find: 0-based position of the first occurrence, or npos
FindFirst(line, pat) ==
    LET hits == {p \in 0..(Len(line) - Len(pat)) : MatchAt(line, pat, p)}
    IN IF hits = {} THEN npos ELSE CHOOSE p \in hits : \A q \in hits : p <= q

\* FindFirst of the POINT_COUNTS marker in each input line, computed once
FindMarkerMemo == [l \in InputLines |-> FindFirst(l, POINT_COUNTS)]

\* std::string::find; the table above holds the same value for an input line
find(line, pat) ==
    IF pat = POINT_COUNTS /\ line \in InputLines THEN FindMarkerMemo[line]
    ELSE FindFirst(line, pat)

\* std::string::substr(0, n)
substr0(line, n) == SubSeq(line, 1, n)

\* Variant of TokScan that splits at blanks only
RECURSIVE TokScan_blank(_, _, _, _)
TokScan_blank(line, i, cur, acc) ==
    IF i > Len(line)
    THEN IF cur = <<>> THEN acc ELSE Append(acc, cur)
    ELSE IF line[i] = " "
         THEN TokScan_blank(line, i + 1, <<>>, IF cur = <<>> THEN acc ELSE Append(acc, cur))
         ELSE TokScan_blank(line, i + 1, Append(cur, line[i]), acc)

\* The loop of tokenize: cur is the token being read, acc the tokens read
RECURSIVE TokScan(_, _, _, _)
TokScan(line, i, cur, acc) ==
    IF i > Len(line)
    THEN IF cur = <<>> THEN acc ELSE Append(acc, cur)
    ELSE IF IsSpace(line[i])
         THEN TokScan(line, i + 1, <<>>, IF cur = <<>> THEN acc ELSE Append(acc, cur))
         ELSE TokScan(line, i + 1, Append(cur, line[i]), acc)

\* The tokens of each input line, computed once
TokenizeMemo == [l \in InputLines |-> TokScan(l, 1, <<>>, <<>>)]

\* tokenize: while (iss >> token) tokens.push_back(token); the table above holds
\* the same value for an input line, every other line is scanned
tokenize(line) ==
    IF line \in InputLines THEN TokenizeMemo[line]
    ELSE TokScan(line, 1, <<>>, <<>>)

\* Value of the digit run of s that starts at position i, accumulated in acc with
\* the sign already applied (neg); [ok |-> FALSE] as soon as the next digit would
\* take the value out of the int range (tested before the step is computed).
RECURSIVE DigitRun(_, _, _, _)
DigitRun(s, i, acc, neg) ==
    IF i > Len(s) \/ ~IsDigit(s[i]) THEN [ok |-> TRUE, val |-> acc]
    ELSE LET d == DigitVal(s[i])
             q == IntMax \div 10
             r == IntMax % 10
         IN IF neg
            THEN IF acc < 0 - q \/ (acc = 0 - q /\ d > r + 1)
                 THEN [ok |-> FALSE, val |-> 0]
                 ELSE DigitRun(s, i + 1, (acc * 10) - d, neg)
            ELSE IF acc > q \/ (acc = q /\ d > r)
                 THEN [ok |-> FALSE, val |-> 0]
                 ELSE DigitRun(s, i + 1, (acc * 10) + d, neg)

RECURSIVE SkipSpace(_, _)
SkipSpace(s, i) == IF i <= Len(s) /\ IsSpace(s[i]) THEN SkipSpace(s, i + 1) ELSE i

\* std::stoi(s): leading whitespace, an optional sign, then the longest run of
\* decimal digits; characters after the run are ignored.  ok = FALSE stands for a
\* thrown std::invalid_argument (no digit) or std::out_of_range (not an int).
stoi(s) ==
    LET b == SkipSpace(s, 1)
        signed == b <= Len(s) /\ s[b] \in {"+", "-"}
        neg == b <= Len(s) /\ s[b] = "-"
        d0 == IF signed THEN b + 1 ELSE b
    IN IF d0 > Len(s) \/ ~IsDigit(s[d0])
       THEN [ok |-> FALSE, val |-> 0, err |-> "invalid_argument"]
       ELSE LET m == DigitRun(s, d0, 0, neg)
            IN IF m.ok THEN [ok |-> TRUE, val |-> m.val, err |-> ""]
               ELSE [ok |-> FALSE, val |-> 0, err |-> "out_of_range"]

RECURSIVE DecimalOf(_)
DecimalOf(n) ==
    IF n < 10 THEN <<Digits[n + 1]>>
    ELSE Append(DecimalOf(n \div 10), Digits[(n % 10) + 1])

\* std::to_string(int)
to_string(n) ==
    IF n >= 0 THEN DecimalOf(n)
    ELSE LET m == 0 - (n + 1)          \* |n| - 1, always an int
             d == (m % 10) + 1         \* last digit of |n|, 10 meaning a carry
             hi == m \div 10
         IN IF d = 10 THEN <<"-">> \o DecimalOf(hi + 1) \o <<"0">>
            ELSE IF hi = 0 THEN <<"-", Digits[d + 1]>>
            ELSE <<"-">> \o DecimalOf(hi) \o <<Digits[d + 1]>>

----------------------------------------------------------------------------
(* Parsing *)

\* extract_point_counts: <<vt_count, tris_count>> of a POINT_COUNTS line
extract_point_counts(line) ==
    LET tokens == tokenize(line)
    IN IF Len(tokens) >= 5 /\ tokens[1] = POINT_COUNTS
       THEN LET vt == stoi(tokens[2])
                tris == stoi(tokens[5])
            IN IF vt.ok /\ tris.ok THEN <<vt.val, tris.val>>
               ELSE <<0, 0>>                       \* catch (const std::exception&)
       ELSE <<0, 0>>

\* ObjInfo info; with the default member initializers of kitbash.h
ObjInfo0 == [vt_count |-> 0, tris_count |-> 0, line_count |-> 0, lines |-> <<>>]

\* ObjLine of one non-empty line
ObjLineOf(line) ==
    LET tokens == tokenize(line)
    IN [type |-> IF tokens # <<>> THEN tokens[1] ELSE <<>>,
        content |-> line,
        tokens |-> tokens]

\* One iteration of the loop of parse_obj over lines[i]
RECURSIVE ParseLoop(_, _, _)
ParseLoop(lines, i, info) ==
    IF i > Len(lines) THEN info
    ELSE LET line == lines[i]
         IN IF line = <<>> THEN ParseLoop(lines, i + 1, info)      \* continue
            ELSE LET counts == extract_point_counts(line)
                     info1 == IF find(line, POINT_COUNTS) # npos
                              THEN [info EXCEPT !.vt_count = counts[1],
                                                !.tris_count = counts[2]]
                              ELSE info
                 IN ParseLoop(lines, i + 1,
                              [info1 EXCEPT !.lines = Append(@, ObjLineOf(line))])

parse_obj(lines) == ParseLoop(lines, 1, [ObjInfo0 EXCEPT !.line_count = Len(lines)])

\* Variant of validate_obj_format that compares the two lines with the markers
validate_obj_format_exact(lines) ==
    IF Len(lines) < 3 THEN FALSE
    ELSE IF lines[2] # V800 THEN FALSE
    ELSE IF lines[3] # OBJ THEN FALSE
    ELSE TRUE

\* validate_obj_format
validate_obj_format(lines) ==
    IF Len(lines) < 3 THEN FALSE
    ELSE IF Len(lines) > 1 /\ find(lines[2], V800) = npos THEN FALSE
    ELSE IF Len(lines) > 2 /\ find(lines[3], OBJ) = npos THEN FALSE
    ELSE TRUE

----------------------------------------------------------------------------
(* Index adjusters *)

RECURSIVE AdjustTokens(_, _, _, _)
AdjustTokens(tokens, i, vt_offset, result) ==
    IF i > Len(tokens) THEN result
    ELSE LET index == stoi(tokens[i])
         IN AdjustTokens(tokens, i + 1, vt_offset,
                IF index.ok
                THEN result \o TAB \o to_string(IntAdd(index.val, vt_offset))
                ELSE result \o TAB \o tokens[i])

\* Variant of adjust_indices_line whose loop starts one token too late
adjust_indices_line_late(line, vt_offset) ==
    LET tokens == tokenize(line)
    IN IF tokens = <<>> THEN line
       ELSE AdjustTokens(tokens, 3, vt_offset, tokens[1])

\* Variant of adjust_indices_line that takes the references as 1-based
adjust_indices_line_one_based(line, vt_offset) ==
    LET tokens == tokenize(line)
    IN IF tokens = <<>> THEN line
       ELSE AdjustTokens(tokens, 2, vt_offset + 1, tokens[1])

adjust_indices_line(line, vt_offset) ==
    LET tokens == tokenize(line)
    IN IF tokens = <<>> THEN line
       ELSE AdjustTokens(tokens, 2, vt_offset, tokens[1])

\* Variant of adjust_tris_line that rebuilds the line without its indentation
adjust_tris_line_flat(line, tris_offset) ==
    LET tokens == tokenize(line)
    IN IF Len(tokens) < 3 \/ tokens[1] # TRIS \/ ~stoi(tokens[2]).ok THEN line
       ELSE TRIS \o TAB \o to_string(IntAdd(stoi(tokens[2]).val, tris_offset))
            \o TAB \o tokens[3]

adjust_tris_line(line, tris_offset) ==
    LET tokens == tokenize(line)
    IN IF Len(tokens) < 3 \/ tokens[1] # TRIS THEN line
       ELSE LET tris_pos == find(line, TRIS)
            IN IF tris_pos = npos THEN line
               ELSE LET tris_index == stoi(tokens[2])
                    IN IF ~tris_index.ok THEN line
                       ELSE substr0(line, tris_pos) \o TRIS \o TAB
                            \o to_string(IntAdd(tris_index.val, tris_offset))
                            \o TAB \o tokens[3]

\* The additions of adjust_indices_line / adjust_tris_line that overflow int
\* (signed overflow: undefined behaviour)
indices_overflow(line, vt_offset) ==
    LET tokens == tokenize(line)
    IN \E i \in 2..Len(tokens) :
           stoi(tokens[i]).ok /\ AddOverflows(stoi(tokens[i]).val, vt_offset)

tris_overflow(line, tris_offset) ==
    LET tokens == tokenize(line)
    IN /\ Len(tokens) >= 3
       /\ tokens[1] = TRIS
       /\ stoi(tokens[2]).ok
       /\ AddOverflows(stoi(tokens[2]).val, tris_offset)

----------------------------------------------------------------------------
(* Merge assembler.  Every emitted line is kept with its origin: the pass *)
(* (1..8, numbered as the comments of merge_objects and the passes of the *)
(* design), the document (src) and the index of the record in it (idx).   *)

IsIdxType(type) == type = IDX \/ type = IDX10

Emit(text, pass, src, idx) == [text |-> text, pass |-> pass, src |-> src, idx |-> idx]

\* Variant of new_point_counts that writes the base counts only
new_point_counts_base(base, addition, tokens) ==
    POINT_COUNTS \o SP \o to_string(base.vt_count)
    \o SP \o tokens[3] \o SP \o tokens[4]
    \o SP \o to_string(base.tris_count)

\* "POINT_COUNTS " + to_string(new_vt_count) + " " + tokens[2] + " " + tokens[3]
\*   + " " + to_string(new_tris_count)
new_point_counts(base, addition, tokens) ==
    POINT_COUNTS \o SP \o to_string(IntAdd(base.vt_count, addition.vt_count))
    \o SP \o tokens[3] \o SP \o tokens[4]
    \o SP \o to_string(IntAdd(base.tris_count, addition.tris_count))

\* 1. Combine headers and update POINT_COUNTS with new totals
RECURSIVE HeaderPass(_, _, _, _)
HeaderPass(base, addition, i, result) ==
    IF i > Len(base.lines) THEN result
    ELSE LET line == base.lines[i]
         IN IF find(line.content, POINT_COUNTS) # npos
            THEN LET tokens == tokenize(line.content)
                 IN IF Len(tokens) >= 5
                    THEN Append(result,
                             Emit(new_point_counts(base, addition, tokens), 1, "base", i))
                    ELSE result                                  \* break
            ELSE HeaderPass(base, addition, i + 1,
                            Append(result, Emit(line.content, 1, "base", i)))

\* Variant of VtRecords that yields the records last to first
VtRecords_reversed(info) ==
    LET r == SelectSeq([i \in 1..Len(info.lines) |-> i], LAMBDA i : info.lines[i].type = VT)
    IN [k \in 1..Len(r) |-> r[Len(r) + 1 - k]]

\* Indices of the records of info whose type is VT, in order
VtRecords(info) ==
    SelectSeq([i \in 1..Len(info.lines) |-> i], LAMBDA i : info.lines[i].type = VT)

\* Indices of the records of info whose type is IDX or IDX10, in order
IdxRecords(info) ==
    SelectSeq([i \in 1..Len(info.lines) |-> i], LAMBDA i : IsIdxType(info.lines[i].type))

\* The loops of passes 6 and 8: indices of the records that are pushed
RECURSIVE FooterRecords(_, _, _, _)
FooterRecords(info, i, past_idx, acc) ==
    IF i > Len(info.lines) THEN acc
    ELSE LET type == info.lines[i].type
         IN IF IsIdxType(type) THEN FooterRecords(info, i + 1, TRUE, acc)
            ELSE IF past_idx /\ type # IDX /\ type # IDX10
                 THEN FooterRecords(info, i + 1, past_idx, Append(acc, i))
                 ELSE FooterRecords(info, i + 1, past_idx, acc)

\* 2. Copy all base VT lines
BaseVtPass(base) ==
    LET r == VtRecords(base)
    IN [k \in 1..Len(r) |-> Emit(base.lines[r[k]].content, 2, "base", r[k])]

\* Variant of AdditionVtPass that sends the vertex lines through the index adjuster
AdditionVtPass_offset(addition) ==
    LET r == SelectSeq([i \in 1..Len(addition.lines) |-> i], LAMBDA i : addition.lines[i].type = VT)
    IN [k \in 1..Len(r) |->
           Emit(adjust_indices_line(addition.lines[r[k]].content, 0), 3, "addition", r[k])]

\* 3. Copy all addition VT lines
AdditionVtPass(addition) ==
    LET r == VtRecords(addition)
    IN [k \in 1..Len(r) |-> Emit(addition.lines[r[k]].content, 3, "addition", r[k])]

\* Variant of BaseIdxPass that sends the base index lines through the adjuster
BaseIdxPass_adjusted(base) ==
    LET r == SelectSeq([i \in 1..Len(base.lines) |-> i], LAMBDA i : IsIdxType(base.lines[i].type))
    IN [k \in 1..Len(r) |->
           Emit(adjust_indices_line(base.lines[r[k]].content, 0), 4, "base", r[k])]

\* 4. Copy all base IDX/IDX10 lines
BaseIdxPass(base) ==
    LET r == IdxRecords(base)
    IN [k \in 1..Len(r) |-> Emit(base.lines[r[k]].content, 4, "base", r[k])]

\* 5. Copy addition IDX/IDX10 lines with adjusted vertex indices
AdditionIdxPass(base, addition) ==
    LET r == IdxRecords(addition)
    IN [k \in 1..Len(r) |->
           Emit(adjust_indices_line(addition.lines[r[k]].content, base.vt_count),
                5, "addition", r[k])]

\* 6. Copy base footer (ANIM sections)
BaseFooterPass(base) ==
    LET r == FooterRecords(base, 1, FALSE, <<>>)
    IN [k \in 1..Len(r) |-> Emit(base.lines[r[k]].content, 6, "base", r[k])]

\* Variant of AttrPass that appends the two lines in the other order
AttrPass_swapped == <<Emit(ATTR_cockpit, 7, "attr", 1), Emit(ATTR_draw_enable, 7, "attr", 2)>>

\* 7. Add attributes
AttrPass == <<Emit(ATTR_draw_enable, 7, "attr", 1), Emit(ATTR_cockpit, 7, "attr", 2)>>

\* 7 (second half; pass 8 of the design). Addition footer with adjusted TRIS indices
AdditionFooterPass(base, addition) ==
    LET r == FooterRecords(addition, 1, FALSE, <<>>)
    IN [k \in 1..Len(r) |->
           LET line == addition.lines[r[k]]
           IN Emit(IF line.type = TRIS
                   THEN adjust_tris_line(line.content, base.tris_count)
                   ELSE line.content,
                   8, "addition", r[k])]

\* merge_objects, each result line with its origin
merge_passes(base, addition) ==
    HeaderPass(base, addition, 1, <<>>)
    \o BaseVtPass(base)
    \o AdditionVtPass(addition)
    \o BaseIdxPass(base)
    \o AdditionIdxPass(base, addition)
    \o BaseFooterPass(base)
    \o AttrPass
    \o AdditionFooterPass(base, addition)

\* merge_objects: the result vector
merge_objects(base, addition) ==
    LET e == merge_passes(base, addition)
    IN [k \in 1..Len(e) |-> e[k].text]

\* Where each line of the result of merge_objects comes from
merge_origin(base, addition) ==
    LET e == merge_passes(base, addition)
    IN [k \in 1..Len(e) |-> [pass |-> e[k].pass, src |-> e[k].src, idx |-> e[k].idx]]

\* Some addition performed by merge_objects on these documents overflows int
merge_overflows(base, addition) ==
    \/ /\ \E i \in 1..Len(base.lines) :
              /\ find(base.lines[i].content, POINT_COUNTS) # npos
              /\ \A j \in 1..(i - 1) : find(base.lines[j].content, POINT_COUNTS) = npos
              /\ Len(tokenize(base.lines[i].content)) >= 5
       /\ \/ AddOverflows(base.vt_count, addition.vt_count)
          \/ AddOverflows(base.tris_count, addition.tris_count)
    \/ \E i \in 1..Len(addition.lines) :
           /\ IsIdxType(addition.lines[i].type)
           /\ indices_overflow(addition.lines[i].content, base.vt_count)
    \/ LET r == FooterRecords(addition, 1, FALSE, <<>>)
       IN \E k \in 1..Len(r) :
              /\ addition.lines[r[k]].type = TRIS
              /\ tris_overflow(addition.lines[r[k]].content, base.tris_count)

----------------------------------------------------------------------------
(* Input files *)

\* Files of at most n lines after the preamble, and the rejected file
Files(pool, n) ==
    {Preamble \o body : body \in UNION {[1..k -> pool] : k \in 0..n}}

\* Number of lines after the preamble
BodyLen(lines) == IF Len(lines) >= 3 THEN Len(lines) - 3 ELSE 0

----------------------------------------------------------------------------
(* The call: read both files, validate, parse, merge *)

Init ==
    /\ \E nb \in 0..MaxLines :
           /\ base_lines \in Files(BasePool, nb) \cup {ShortFile}
           /\ addition_lines \in Files(AddPool, MaxLines - nb) \cup {ShortFile}
    /\ base_info = ObjInfo0
    /\ addition_info = ObjInfo0
    /\ merged_lines = <<>>
    /\ origin = <<>>
    /\ pc = "loaded"
    /\ fn = "" /\ arg = <<>> /\ ret = [done |-> FALSE, val |-> <<>>]
    /\ disk = <<>> /\ disk0 = <<>> /\ log = <<>> /\ stats = <<>>
    /\ env = [unreadable |-> {}, unwritable |-> {}]
    /\ last_error = ""

\* if (!validate_obj_format(base_lines) || !validate_obj_format(addition_lines)) return -1
Reject ==
    /\ pc = "loaded"
    /\ ~validate_obj_format(base_lines) \/ ~validate_obj_format(addition_lines)
    /\ pc' = "rejected"
    /\ UNCHANGED <<base_lines, addition_lines, base_info, addition_info, merged_lines, origin>>
    /\ UNCHANGED <<call_vars, api_vars>>

\* base_info = parse_obj(base_lines); addition_info = parse_obj(addition_lines)
Parse ==
    /\ pc = "loaded"
    /\ validate_obj_format(base_lines)
    /\ validate_obj_format(addition_lines)
    /\ base_info' = parse_obj(base_lines)
    /\ addition_info' = parse_obj(addition_lines)
    /\ pc' = "parsed"
    /\ UNCHANGED <<base_lines, addition_lines, merged_lines, origin>>
    /\ UNCHANGED <<call_vars, api_vars>>

\* merged_lines = merge_objects(base_info, addition_info); an overflowing int
\* addition yields the wrapped value here
Merge ==
    /\ pc = "parsed"
    /\ merged_lines' = merge_objects(base_info, addition_info)
    /\ origin' = merge_origin(base_info, addition_info)
    /\ pc' = "merged"
    /\ UNCHANGED <<base_lines, addition_lines, base_info, addition_info>>
    /\ UNCHANGED <<call_vars, api_vars>>

\* The other outcome of an overflowing int addition: the build traps
MergeTrap ==
    /\ pc = "parsed"
    /\ merge_overflows(base_info, addition_info)
    /\ pc' = "aborted"
    /\ UNCHANGED <<base_lines, addition_lines, base_info, addition_info, merged_lines, origin>>
    /\ UNCHANGED <<call_vars, api_vars>>

Next == Reject \/ Parse \/ Merge \/ MergeTrap

Spec == Init /\ [][Next]_vars

\* Lines of files that declare one vertex: the header, VT and IDX lines, and
\* a TEXTURE line whose file name contains the header marker
HDR1 == POINT_COUNTS \o SP \o <<"1">> \o SP \o <<"0">> \o SP \o <<"0">> \o SP \o <<"0">>
CountedBasePool == {
    HDR1,
    VT \o SP \o <<"0">> \o SP \o <<"0">> \o SP \o <<"1">>,
    IDX \o SP \o <<"0">>,
    <<"T","E","X","T","U","R","E">> \o SP \o POINT_COUNTS \o <<".","p","n","g">> }
CountedAddPool == {
    HDR1,
    VT \o SP \o <<"9">> \o SP \o <<"9">> \o SP \o <<"9">>,
    IDX \o SP \o <<"0">> }

InitCounted ==
    /\ base_lines \in Files(CountedBasePool, MaxCountedLines)
    /\ addition_lines \in Files(CountedAddPool, MaxCountedLines)
    /\ base_info = ObjInfo0
    /\ addition_info = ObjInfo0
    /\ merged_lines = <<>>
    /\ origin = <<>>
    /\ pc = "loaded"
    /\ fn = "" /\ arg = <<>> /\ ret = [done |-> FALSE, val |-> <<>>]
    /\ disk = <<>> /\ disk0 = <<>> /\ log = <<>> /\ stats = <<>>
    /\ env = [unreadable |-> {}, unwritable |-> {}]
    /\ last_error = ""

\* Every file of these pools is accepted and no sum overflows
CountedSpec == InitCounted /\ [][Parse \/ Merge]_vars

----------------------------------------------------------------------------
(* The helpers called on their own: one call per behaviour, the arguments *)
(* fixed by the initial state, the return value set by the call.          *)

\* No merge call is in progress and no file is involved
MergeIdle ==
    /\ base_lines = <<>> /\ addition_lines = <<>>
    /\ base_info = ObjInfo0 /\ addition_info = ObjInfo0
    /\ merged_lines = <<>> /\ origin = <<>>
    /\ pc = "idle"
    /\ disk = <<>> /\ disk0 = <<>> /\ log = <<>> /\ stats = <<>>
    /\ env = [unreadable |-> {}, unwritable |-> {}]
    /\ last_error = ""

\* The call has not returned; it has returned v
Pending == [done |-> FALSE, val |-> <<>>]
Returns(v) == [done |-> TRUE, val |-> v]

\* All strings over the alphabet of length at most n
RECURSIVE Strings(_, _)
Strings(alphabet, n) ==
    IF n = 0 THEN {<<>>}
    ELSE LET shorter == Strings(alphabet, n - 1)
         IN shorter \cup {Append(s, c) : s \in shorter, c \in alphabet}

\* "IDX 1 2 3"
IDX_1_2_3 == IDX \o SP \o <<"1">> \o SP \o <<"2">> \o SP \o <<"3">>

\* Lines handed to tokenize
TokLines == Strings({"x", " ", "\t"}, MaxTokLen) \cup {IDX_1_2_3, <<"\r">>, <<"x", "\n", "y">>}

InitTokenize ==
    /\ MergeIdle
    /\ fn = "tokenize" /\ arg \in TokLines /\ ret = Pending

\* tokens = tokenize(line)
CallTokenize ==
    /\ fn = "tokenize" /\ ~ret.done
    /\ ret' = Returns(tokenize(arg))
    /\ UNCHANGED <<fn, arg, merge_vars, api_vars>>

TokenizeSpec == InitTokenize /\ [][CallTokenize]_vars

\* Lines of the files handed to parse_obj: an empty line, a whitespace-only line,
\* an indented record, and header lines that are well-formed, indented, short,
\* non-numeric, out of range, or that only contain the marker text
ParsePool == {
    <<>>,
    SP \o TAB,
    TAB \o VT \o SP \o <<"0">> \o SP \o <<"0">> \o SP \o <<"1">>,
    POINT_COUNTS \o SP \o <<"1","0","0">> \o SP \o <<"5","0">> \o SP \o <<"0">> \o SP \o <<"4","0">>,
    SP \o POINT_COUNTS \o SP \o <<"2","0">> \o SP \o <<"1","0">> \o SP \o <<"0">> \o SP \o <<"5">>,
    POINT_COUNTS \o SP \o <<"7">> \o SP \o <<"0">> \o SP \o <<"0">>,
    POINT_COUNTS \o SP \o <<"x">> \o SP \o <<"0">> \o SP \o <<"0">> \o SP \o <<"1">>,
    POINT_COUNTS \o SP \o <<"-","5">> \o SP \o <<"0">> \o SP \o <<"0">> \o SP \o <<"-","1">>,
    POINT_COUNTS \o SP \o <<"3">> \o SP \o <<"0">> \o SP \o <<"0">> \o SP
        \o <<"9","9","9","9","9","9","9","9","9","9">>,
    <<"T","E","X","T","U","R","E">> \o SP \o POINT_COUNTS \o <<".","p","n","g">> }

\* Sequences of at most n elements of a set
SeqsUpTo(S, n) == UNION {[1..k -> S] : k \in 0..n}

InitParse ==
    /\ MergeIdle
    /\ fn = "parse_obj" /\ arg \in SeqsUpTo(ParsePool, MaxParseLines) /\ ret = Pending

\* info = parse_obj(lines)
CallParse ==
    /\ fn = "parse_obj" /\ ~ret.done
    /\ ret' = Returns(parse_obj(arg))
    /\ UNCHANGED <<fn, arg, merge_vars, api_vars>>

ParseSpec == InitParse /\ [][CallParse]_vars

\* Lines handed to adjust_tris_line: well-formed ones (plain and indented), one
\* of four tokens, one of two, ones whose index is not a number, is followed by
\* other characters, is the largest int or exceeds it, and lines of other types
TrisPool == {
    TRIS \o SP \o <<"5">> \o SP \o <<"3">>,
    TAB \o TAB \o TRIS \o TAB \o <<"5">> \o TAB \o <<"3">>,
    TRIS \o SP \o <<"5">> \o SP \o <<"3">> \o SP \o <<"9">>,
    TRIS \o SP \o <<"5">>,
    TRIS \o SP \o <<"x">> \o SP \o <<"3">>,
    TRIS \o SP \o <<"5","x">> \o SP \o <<"3">>,
    TRIS \o SP \o <<"1",".","5">> \o SP \o <<"3">>,
    TRIS \o SP \o <<"2","1","4","7","4","8","3","6","4","7">> \o SP \o <<"3">>,
    TRIS \o SP \o <<"9","9","9","9","9","9","9","9","9","9">> \o SP \o <<"3">>,
    <<"X">> \o TRIS \o SP \o <<"5">> \o SP \o <<"3">>,
    IDX \o SP \o <<"5">> \o SP \o <<"3">>,
    <<>> }

\* Reference tokens of the lines handed to adjust_indices_line
RefPool == {
    <<"0">>, <<"-","4">>, <<"+","7">>, <<"3","x">>, <<"a","b","c">>, <<"1",".","5">>,
    <<"2","1","4","7","4","8","3","6","4","7">>,
    <<"9","9","9","9","9","9","9","9","9","9">> }

\* A line made of the type token and the reference tokens, blank-separated
RECURSIVE JoinRefs(_, _)
JoinRefs(type, refs) ==
    IF refs = <<>> THEN type ELSE JoinRefs(type \o SP \o Head(refs), Tail(refs))

\* Lines handed to adjust_indices_line
IdxPool == {JoinRefs(IDX, refs) : refs \in SeqsUpTo(RefPool, MaxRefs)} \cup {<<>>, SP}

\* Offsets handed to the adjusters (a vt_count or a tris_count)
Offsets == {0, 1, 100}

InitAdjust ==
    /\ MergeIdle
    /\ ret = Pending
    /\ \/ fn = "adjust_tris_line" /\ arg \in TrisPool \X Offsets
       \/ fn = "adjust_indices_line" /\ arg \in IdxPool \X Offsets

\* adjust_tris_line(line, tris_offset); an overflowing addition wraps here
CallAdjustTris ==
    /\ fn = "adjust_tris_line" /\ ret = Pending
    /\ ret' = Returns(adjust_tris_line(arg[1], arg[2]))
    /\ UNCHANGED <<fn, arg, merge_vars, api_vars>>

\* adjust_indices_line(line, vt_offset); an overflowing addition wraps here
CallAdjustIndices ==
    /\ fn = "adjust_indices_line" /\ ret = Pending
    /\ ret' = Returns(adjust_indices_line(arg[1], arg[2]))
    /\ UNCHANGED <<fn, arg, merge_vars, api_vars>>

\* The other outcome of an overflowing int addition in an adjuster: the build
\* traps and the call never returns
AdjustTrap ==
    /\ ret = Pending
    /\ \/ fn = "adjust_tris_line" /\ tris_overflow(arg[1], arg[2])
       \/ fn = "adjust_indices_line" /\ indices_overflow(arg[1], arg[2])
    /\ ret' = [done |-> FALSE, val |-> <<"trap">>]
    /\ UNCHANGED <<fn, arg, merge_vars, api_vars>>

AdjustSpec == InitAdjust /\ [][CallAdjustTris \/ CallAdjustIndices \/ AdjustTrap]_vars

\* The tokens joined by one separator each
RECURSIVE JoinTokens(_, _)
JoinTokens(tokens, sep) ==
    IF Len(tokens) <= 1 THEN (IF tokens = <<>> THEN <<>> ELSE tokens[1])
    ELSE tokens[1] \o sep \o JoinTokens(Tail(tokens), sep)

\* Reference tokens of the lines adjusted twice: integers as std::to_string
\* writes them, integers written otherwise, and one that only begins with digits
ComposeRefs == {<<"0">>, <<"7">>, <<"1","2">>, <<"-","4">>, <<"+","7">>, <<"0","0","7">>,
                <<"3","x">>}

\* IDX and IDX10 lines, blank-separated or tab-joined
ComposeIdxLines ==
    {JoinTokens(<<type>> \o refs, sep) :
        type \in {IDX, IDX10}, refs \in SeqsUpTo(ComposeRefs, MaxComposeRefs),
        sep \in {SP, TAB}}

\* TRIS lines of three tokens, indented or not, blank-separated or tab-joined
ComposeTrisLines ==
    {indent \o JoinTokens(<<TRIS, ref, <<"3">>>>, sep) :
        indent \in {<<>>, TAB \o TAB}, ref \in ComposeRefs, sep \in {SP, TAB}}

\* Offsets small enough that no sum overflows
ComposeOffsets == {0, 1, 100}

InitCompose ==
    /\ MergeIdle
    /\ ret = Pending
    /\ \/ fn = "adjust_indices_line"
          /\ arg \in [line : ComposeIdxLines, a : ComposeOffsets, b : ComposeOffsets]
       \/ fn = "adjust_tris_line"
          /\ arg \in [line : ComposeTrisLines, a : ComposeOffsets, b : ComposeOffsets]

\* adjust_indices_line applied with a and then b, with a + b, and with 0
ComposeIndices ==
    /\ fn = "adjust_indices_line" /\ ~ret.done
    /\ ret' = Returns([first |-> adjust_indices_line(arg.line, arg.a),
                       second |-> adjust_indices_line(adjust_indices_line(arg.line, arg.a), arg.b),
                       direct |-> adjust_indices_line(arg.line, arg.a + arg.b),
                       zero |-> adjust_indices_line(arg.line, 0)])
    /\ UNCHANGED <<fn, arg, merge_vars, api_vars>>

\* adjust_tris_line applied with a and then b, with a + b, and with 0
ComposeTris ==
    /\ fn = "adjust_tris_line" /\ ~ret.done
    /\ ret' = Returns([first |-> adjust_tris_line(arg.line, arg.a),
                       second |-> adjust_tris_line(adjust_tris_line(arg.line, arg.a), arg.b),
                       direct |-> adjust_tris_line(arg.line, arg.a + arg.b),
                       zero |-> adjust_tris_line(arg.line, 0)])
    /\ UNCHANGED <<fn, arg, merge_vars, api_vars>>

ComposeSpec == InitCompose /\ [][ComposeIndices \/ ComposeTris]_vars

\* Lines of the files handed to validate_obj_format: the three preamble lines,
\* lines that hold a marker among other characters, and an empty line
ValPool == {
    <<"A">>, V800, OBJ,
    <<"v">> \o V800 \o <<" ">>,
    <<"8", "0">> \o OBJ \o <<"8">>,
    <<>> }

InitValidate ==
    /\ MergeIdle
    /\ fn = "validate_obj_format" /\ arg \in SeqsUpTo(ValPool, MaxValLines) /\ ret = Pending

\* validate_obj_format(lines)
CallValidate ==
    /\ fn = "validate_obj_format" /\ ~ret.done
    /\ ret' = Returns(validate_obj_format(arg))
    /\ UNCHANGED <<fn, arg, merge_vars, api_vars>>

ValidateSpec == InitValidate /\ [][CallValidate]_vars

\* std::toupper in the "C" locale
LowerCase == <<"a","b","c","d","e","f","g","h","i","j","k","l","m",
               "n","o","p","q","r","s","t","u","v","w","x","y","z">>
UpperCase == <<"A","B","C","D","E","F","G","H","I","J","K","L","M",
               "N","O","P","Q","R","S","T","U","V","W","X","Y","Z">>
toupper(c) ==
    IF \E i \in 1..26 : LowerCase[i] = c
    THEN UpperCase[CHOOSE i \in 1..26 : LowerCase[i] = c]
    ELSE c

\* Variant of confirm_overwrite that compares the whole answer with "Y"
confirm_overwrite_exact(response) == response = <<"Y">>

\* confirm_overwrite: the value returned for the line read from std::cin
confirm_overwrite(response) == response # <<>> /\ toupper(response[1]) = "Y"

\* Answers typed at the prompt
Answers == Strings({"Y", "y", "n", " "}, MaxAnswerLen)

InitConfirm ==
    /\ MergeIdle
    /\ fn = "confirm_overwrite" /\ arg \in Answers /\ ret = Pending

\* confirm_overwrite(filename), the user typing the answer
CallConfirm ==
    /\ fn = "confirm_overwrite" /\ ~ret.done
    /\ ret' = Returns(confirm_overwrite(arg))
    /\ UNCHANGED <<fn, arg, merge_vars, api_vars>>

ConfirmSpec == InitConfirm /\ [][CallConfirm]_vars

----------------------------------------------------------------------------
(* The entry points on files: the C API (kitbash_merge,                    *)
(* kitbash_merge_to_file), the C++ API (merge_with_stats,                   *)
(* merge_to_file_with_stats) and the command line tool (main), which calls  *)
(* merge_to_file_with_stats.  A step is a file operation or a return.       *)

BaseName == "base.obj"
AdditionName == "addition.obj"
OutName == "out.obj"

\* generate_backup_filename
generate_backup_filename(filename) == filename \o ".bak"

CApi == {"kitbash_merge", "kitbash_merge_to_file"}
CppApi == {"merge_with_stats", "merge_to_file_with_stats"}

\* The library function that runs: main calls merge_to_file_with_stats
Callee == IF fn = "main" THEN "merge_to_file_with_stats" ELSE fn

\* The library functions that call create_backup
Backs(f) == f \in {"kitbash_merge", "merge_with_stats"}

\* What the entry point returns on success and on failure
SuccessValue == IF fn \in CppApi THEN TRUE ELSE 0
FailValue == IF fn \in CApi THEN -1 ELSE IF fn = "main" THEN 1 ELSE FALSE

\* std::filesystem::exists; std::ifstream / std::ofstream is_open
exists(f) == f \in DOMAIN disk
CanRead(f) == exists(f) /\ f \notin env.unreadable
CanWrite(f) == f \notin env.unwritable

\* The disk after file f was given the lines
Written(f, lines) == [g \in DOMAIN disk \cup {f} |-> IF g = f THEN lines ELSE disk[g]]

\* create_backup(filename) returns true
CanBackup(f) == exists(f) /\ CanRead(f) /\ CanWrite(generate_backup_filename(f))

\* Files found on the disk when the call begins
BaseFile ==
    Preamble \o << POINT_COUNTS \o SP \o <<"1","0","0">> \o SP \o <<"5","0">> \o SP \o <<"0">>
                      \o SP \o <<"4","0">>,
                   VT \o SP \o <<"0">> \o SP \o <<"0">> \o SP \o <<"1">>,
                   IDX \o SP \o SP \o <<"0">> \o SP \o <<"1">> >>
AdditionFile ==
    Preamble \o << POINT_COUNTS \o SP \o <<"2","0">> \o SP \o <<"1","0">> \o SP \o <<"0">>
                      \o SP \o <<"5">>,
                   VT \o SP \o <<"9">> \o SP \o <<"9">> \o SP \o <<"9">>,
                   IDX \o SP \o <<"0">> \o SP \o <<"1">> \o SP \o <<"2">>,
                   TAB \o TAB \o TRIS \o TAB \o <<"5">> \o TAB \o <<"3">> >>
OldFile == << <<"o", "l", "d">> >>

\* A base file whose TEXTURE line names a file called POINT_COUNTS.png
TextureFile ==
    Preamble \o << <<"T","E","X","T","U","R","E">> \o SP \o POINT_COUNTS \o <<".","p","n","g">>,
                   POINT_COUNTS \o SP \o <<"1","0","0">> \o SP \o <<"5","0">> \o SP \o <<"0">>
                       \o SP \o <<"4","0">> >>

\* The disks a call can find: each input is a valid file, a rejected one or
\* missing; the output and the backup are missing or left from an earlier run
Disks ==
    {d \in UNION {[N -> {BaseFile, TextureFile, AdditionFile, ShortFile, OldFile}] :
                      N \in SUBSET {BaseName, AdditionName, OutName, "base.obj.bak"}} :
        /\ BaseName \in DOMAIN d => d[BaseName] \in {BaseFile, TextureFile, ShortFile}
        /\ AdditionName \in DOMAIN d => d[AdditionName] \in {AdditionFile, ShortFile}
        /\ OutName \in DOMAIN d => d[OutName] = OldFile
        /\ "base.obj.bak" \in DOMAIN d => d["base.obj.bak"] = OldFile}

\* MergeStats as its default member initializers leave it
MergeStats0 ==
    [original_vt_count |-> 0, original_tris_count |-> 0, original_line_count |-> 0,
     added_vt_count |-> 0, added_tris_count |-> 0, added_line_count |-> 0,
     final_vt_count |-> 0, final_tris_count |-> 0, final_line_count |-> 0]

\* "Populate initial stats": the counts of the two parsed files
populate_stats(base, addition) ==
    [stats EXCEPT !.original_vt_count = base.vt_count,
                  !.original_tris_count = base.tris_count,
                  !.original_line_count = base.line_count,
                  !.added_vt_count = addition.vt_count,
                  !.added_tris_count = addition.tris_count,
                  !.added_line_count = addition.line_count]

\* "Complete stats": the sums and the size of merged_lines
complete_stats(merged) ==
    [stats EXCEPT !.final_vt_count = IntAdd(stats.original_vt_count, stats.added_vt_count),
                  !.final_tris_count = IntAdd(stats.original_tris_count, stats.added_tris_count),
                  !.final_line_count = Len(merged)]

\* g_last_error as an earlier failed call of the process left it
EarlierError == "Earlier failure"

\* The lines the user may type at the prompt of an in-place command line
CliAnswers == {<<"Y">>, <<"y">>, <<"n">>, <<>>}

\* The calls: the C and C++ functions with their file arguments, and the
\* command lines "kitbash base.obj addition.obj" with and without -o FILE
Calls ==
    {[f |-> f, has_output_file |-> FALSE, output |-> BaseName, answer |-> <<>>] :
         f \in {"kitbash_merge", "merge_with_stats"}}
    \cup {[f |-> "main", has_output_file |-> FALSE, output |-> BaseName,
           answer |-> a] : a \in CliAnswers}
    \cup {[f |-> f, has_output_file |-> TRUE, output |-> o, answer |-> <<>>] :
              f \in {"kitbash_merge_to_file", "merge_to_file_with_stats", "main"},
              o \in {BaseName, OutName}}

InitApi ==
    /\ base_lines = <<>> /\ addition_lines = <<>>
    /\ base_info = ObjInfo0 /\ addition_info = ObjInfo0
    /\ merged_lines = <<>> /\ origin = <<>>
    /\ \E c \in Calls :
           /\ fn = c.f
           /\ arg = [base |-> BaseName, addition |-> AdditionName,
                     output |-> c.output, has_output_file |-> c.has_output_file,
                     answer |-> c.answer]
           /\ pc = IF c.f = "main" THEN "cli_exists" ELSE "read"
    /\ ret = Pending
    /\ disk \in Disks
    /\ disk0 = disk
    /\ env \in [unreadable : SUBSET {BaseName, AdditionName},
                 unwritable : SUBSET {BaseName, OutName, "base.obj.bak"}]
    /\ last_error \in {"", EarlierError}
    /\ log = <<>>
    /\ stats = MergeStats0

\* The entry point returns v
Exit(v) == pc' = "exited" /\ ret' = Returns(v)

\* The library function fails: set_last_error in the C API, then the failure
\* value of the entry point
Fail(message) ==
    /\ Exit(FailValue)
    /\ last_error' = IF Callee \in CApi THEN message ELSE last_error

\* main: if (!std::filesystem::exists(base_file)) ... return 1
CliMissingInput ==
    /\ pc = "cli_exists"
    /\ ~exists(arg.base) \/ ~exists(arg.addition)
    /\ Exit(1)
    /\ UNCHANGED <<fn, arg, data_vars, api_vars>>

\* main: both input files exist
CliInputsExist ==
    /\ pc = "cli_exists"
    /\ exists(arg.base) /\ exists(arg.addition)
    /\ pc' = IF arg.has_output_file THEN "read" ELSE "cli_confirm"
    /\ UNCHANGED <<fn, arg, ret, data_vars, api_vars>>

\* main: confirm_overwrite(base_file) returns true (the answer starts with y or Y)
CliConfirm ==
    /\ pc = "cli_confirm"
    /\ confirm_overwrite(arg.answer)
    /\ log' = Append(log, [op |-> "confirm", from |-> "", to |-> arg.base])
    /\ pc' = "cli_backup"
    /\ UNCHANGED <<fn, arg, ret, data_vars, disk, disk0, env, last_error, stats>>

\* Variant of CliCancel in the order of the plan's workflow: the backup is
\* made before the user is asked
CliCancel_after_backup ==
    /\ pc = "cli_confirm"
    /\ ~confirm_overwrite(arg.answer)
    /\ Exit(0)
    /\ IF CanWrite(generate_backup_filename(arg.base))
       THEN disk' = Written(generate_backup_filename(arg.base), disk[arg.base])
       ELSE disk' = disk
    /\ UNCHANGED <<fn, arg, data_vars, disk0, env, last_error, log, stats>>

\* main: confirm_overwrite(base_file) returns false: return 0
CliCancel ==
    /\ pc = "cli_confirm"
    /\ ~confirm_overwrite(arg.answer)
    /\ Exit(0)
    /\ UNCHANGED <<fn, arg, data_vars, api_vars>>

\* create_backup(filename) succeeds: copy_file(filename, filename + ".bak",
\* overwrite_existing)
DoBackup(f) ==
    /\ disk' = Written(generate_backup_filename(f), disk[f])
    /\ log' = Append(log, [op |-> "copy", from |-> f, to |-> generate_backup_filename(f)])

\* main: kitbash::create_backup(base_file) returns true
CliBackup ==
    /\ pc = "cli_backup"
    /\ CanBackup(arg.base)
    /\ DoBackup(arg.base)
    /\ pc' = "read"
    /\ UNCHANGED <<fn, arg, ret, data_vars, disk0, env, last_error, stats>>

\* main: kitbash::create_backup(base_file) returns false: return 1
CliBackupFailed ==
    /\ pc = "cli_backup"
    /\ ~CanBackup(arg.base)
    /\ Exit(1)
    /\ UNCHANGED <<fn, arg, data_vars, api_vars>>

\* Variant of LibRead in which the backup is made as soon as the files are read
LibRead_backup_first ==
    /\ pc = "read"
    /\ CanRead(arg.base) /\ CanRead(arg.addition)
    /\ base_lines' = disk[arg.base]
    /\ addition_lines' = disk[arg.addition]
    /\ IF Backs(Callee) /\ CanBackup(arg.base)
       THEN DoBackup(arg.base)
       ELSE UNCHANGED <<disk, log>>
    /\ pc' = "loaded"
    /\ UNCHANGED <<fn, arg, ret, base_info, addition_info, merged_lines, origin>>
    /\ UNCHANGED <<disk0, env, last_error, stats>>

\* base_lines = read_file(base); addition_lines = read_file(addition)
LibRead ==
    /\ pc = "read"
    /\ CanRead(arg.base) /\ CanRead(arg.addition)
    /\ base_lines' = disk[arg.base]
    /\ addition_lines' = disk[arg.addition]
    /\ pc' = "loaded"
    /\ UNCHANGED <<fn, arg, ret, base_info, addition_info, merged_lines, origin, api_vars>>

\* read_file throws std::runtime_error("Cannot open file: ...")
LibReadFailed ==
    /\ pc = "read"
    /\ ~CanRead(arg.base) \/ ~CanRead(arg.addition)
    /\ Fail("Cannot open file")
    /\ UNCHANGED <<fn, arg, data_vars, disk, disk0, env, log, stats>>

\* if (!validate_obj_format(base_lines) || !validate_obj_format(addition_lines))
LibReject ==
    /\ pc = "loaded"
    /\ ~validate_obj_format(base_lines) \/ ~validate_obj_format(addition_lines)
    /\ Fail("Invalid OBJ8 format")
    /\ UNCHANGED <<fn, arg, data_vars, disk, disk0, env, log, stats>>

\* base_info = parse_obj(base_lines); addition_info = parse_obj(addition_lines)
LibParse ==
    /\ pc = "loaded"
    /\ validate_obj_format(base_lines) /\ validate_obj_format(addition_lines)
    /\ base_info' = parse_obj(base_lines)
    /\ addition_info' = parse_obj(addition_lines)
    /\ stats' = IF Callee \in CppApi
                THEN populate_stats(parse_obj(base_lines), parse_obj(addition_lines))
                ELSE stats
    /\ pc' = IF Backs(Callee) THEN "backup" ELSE "merge"
    /\ UNCHANGED <<fn, arg, ret, base_lines, addition_lines, merged_lines, origin,
                   disk, disk0, env, last_error, log>>

\* kitbash_merge, merge_with_stats: create_backup(base_file) returns true
LibBackup ==
    /\ pc = "backup"
    /\ CanBackup(arg.base)
    /\ DoBackup(arg.base)
    /\ pc' = "merge"
    /\ UNCHANGED <<fn, arg, ret, data_vars, disk0, env, last_error, stats>>

\* kitbash_merge, merge_with_stats: create_backup(base_file) returns false
LibBackupFailed ==
    /\ pc = "backup"
    /\ ~CanBackup(arg.base)
    /\ Fail("Failed to create backup")
    /\ UNCHANGED <<fn, arg, data_vars, disk, disk0, env, log, stats>>

\* merged_lines = merge_objects(base_info, addition_info)
LibMerge ==
    /\ pc = "merge"
    /\ merged_lines' = merge_objects(base_info, addition_info)
    /\ origin' = merge_origin(base_info, addition_info)
    /\ pc' = "write"
    /\ UNCHANGED <<fn, arg, ret, base_lines, addition_lines, base_info, addition_info, api_vars>>

\* write_file(output, merged_lines), then the return of success
LibWrite ==
    /\ pc = "write"
    /\ CanWrite(arg.output)
    /\ disk' = Written(arg.output, merged_lines)
    /\ log' = Append(log, [op |-> "write", from |-> "", to |-> arg.output])
    /\ stats' = IF Callee \in CppApi THEN complete_stats(merged_lines) ELSE stats
    /\ Exit(SuccessValue)
    /\ UNCHANGED <<fn, arg, data_vars, disk0, env, last_error>>

\* write_file throws std::runtime_error("Cannot create file: ...")
LibWriteFailed ==
    /\ pc = "write"
    /\ ~CanWrite(arg.output)
    /\ Fail("Cannot create file")
    /\ UNCHANGED <<fn, arg, data_vars, disk, disk0, env, log, stats>>

ApiNext ==
    \/ CliMissingInput \/ CliInputsExist \/ CliConfirm \/ CliCancel
    \/ CliBackup \/ CliBackupFailed
    \/ LibRead \/ LibReadFailed \/ LibReject \/ LibParse
    \/ LibBackup \/ LibBackupFailed \/ LibMerge \/ LibWrite \/ LibWriteFailed

ApiSpec == InitApi /\ [][ApiNext]_vars

Merged == pc = "merged"

\* No int addition of this merge overflowed
NoOverflow == ~merge_overflows(base_info, addition_info)

\* The record an output line was derived from
RecordOf(o) ==
    IF o.src = "base" THEN base_info.lines[o.idx] ELSE addition_info.lines[o.idx]

\* The idx-th non-empty line of a file, as read
RawLine(lines, idx) == SelectSeq(lines, LAMBDA l : l # <<>>)[idx]

\* Output positions whose line was emitted by the given pass
PassLines(pass) == {k \in 1..Len(origin) : origin[k].pass = pass}

\* The whole token is a base-10 integer that fits an int
IsDecimalInt(tok) ==
    LET d0 == IF tok # <<>> /\ tok[1] \in {"+", "-"} THEN 2 ELSE 1
    IN /\ d0 <= Len(tok)
       /\ \A i \in d0..Len(tok) : IsDigit(tok[i])
       /\ stoi(tok).ok

\* The record's first token is the header marker
IsHeaderRecord(rec) == rec.tokens # <<>> /\ rec.tokens[1] = POINT_COUNTS

\* The record's text contains the header marker
HasMarker(rec) == find(rec.content, POINT_COUNTS) # npos

\* Index of the first record satisfying P, 0 when there is none
FirstRecord(info, P(_)) ==
    IF \E i \in 1..Len(info.lines) : P(info.lines[i])
    THEN CHOOSE i \in 1..Len(info.lines) :
             P(info.lines[i]) /\ \A j \in 1..(i - 1) : ~P(info.lines[j])
    ELSE 0

\* The base document has a point-counts header of five tokens or more and no
\* earlier record contains the text POINT_COUNTS: pass 1 ends with the rewritten header
BaseHeaderFirst ==
    LET h == FirstRecord(base_info, HasMarker)
    IN h > 0 /\ IsHeaderRecord(base_info.lines[h]) /\ Len(base_info.lines[h].tokens) >= 5

\* Number of positions of seq that hold x
Count(seq, x) == Cardinality({k \in 1..Len(seq) : seq[k] = x})

Category(type) ==
    IF type = VT THEN "VT"
    ELSE IF IsIdxType(type) THEN "IDX"
    ELSE IF type = TRIS THEN "TRIS"
    ELSE "other"

----------------------------------------------------------------------------
(* C1 *)

\* C1: whenever the base document has a point-counts header record (first token
\* POINT_COUNTS, five tokens or more), the output starts with the base
\* records that precede it, unchanged and in order, followed by the single line
\* "POINT_COUNTS V f2 f3 T" with V and T the sums of the two documents' counts.
C1_HeaderRewritten ==
    (Merged /\ NoOverflow) =>
        LET h == FirstRecord(base_info, IsHeaderRecord)
        IN (h > 0 /\ Len(base_info.lines[h].tokens) >= 5) =>
               /\ Len(merged_lines) >= h
               /\ \A j \in 1..(h - 1) : merged_lines[j] = base_info.lines[j].content
               /\ merged_lines[h] =
                      POINT_COUNTS \o SP
                      \o to_string(base_info.vt_count + addition_info.vt_count)
                      \o SP \o base_info.lines[h].tokens[3]
                      \o SP \o base_info.lines[h].tokens[4]
                      \o SP \o to_string(base_info.tris_count + addition_info.tris_count)

----------------------------------------------------------------------------
(* C2 *)

HeaderEmitted ==
    LET h == FirstRecord(base_info, HasMarker)
    IN h > 0 /\ Len(base_info.lines[h].tokens) >= 5

\* No line emitted by passes 2..8 contains the text POINT_COUNTS
NoLaterMarker ==
    \A k \in 1..Len(origin) :
        origin[k].pass >= 2 => find(merged_lines[k], POINT_COUNTS) = npos

----------------------------------------------------------------------------
(* C3 *)

\* C3: every line emitted for an addition IDX/IDX10 record has as many tokens as
\* the record, in the same order, separated by exactly one TAB each and with no
\* other whitespace; the first is the type token and every reference token that
\* is a base-10 integer is the decimal text of its value plus base.vt_count.
C3_IndexOffset ==
    Merged =>
        \A k \in PassLines(5) :
            LET in == RecordOf(origin[k]).tokens
                out == merged_lines[k]
                outTok == tokenize(out)
            IN /\ IsIdxType(RecordOf(origin[k]).type)
               /\ Len(outTok) = Len(in)
               /\ Count(out, "\t") = Len(in) - 1
               /\ \A c \in 1..Len(out) : IsSpace(out[c]) => out[c] = "\t"
               /\ ~IsSpace(out[1]) /\ ~IsSpace(out[Len(out)])
               /\ outTok[1] = in[1]
               /\ \A i \in 2..Len(in) :
                      (IsDecimalInt(in[i]) /\ ~AddOverflows(stoi(in[i]).val, base_info.vt_count))
                          => outTok[i] = to_string(stoi(in[i]).val + base_info.vt_count)

\* "IDX 0 1 2" with base.vt_count = 100 was emitted as "IDX<TAB>100<TAB>101<TAB>102"
C3_Witness ==
    /\ Merged
    /\ base_info.vt_count = 100
    /\ \E k \in PassLines(5) :
           /\ RecordOf(origin[k]).content = IDX \o SP \o <<"0">> \o SP \o <<"1">> \o SP \o <<"2">>
           /\ merged_lines[k] = IDX \o TAB \o <<"1","0","0">> \o TAB \o <<"1","0","1">>
                                \o TAB \o <<"1","0","2">>

----------------------------------------------------------------------------
(* C4 *)

\* C4: every line emitted by the addition trailing pass for a TRIS record with
\* exactly the tokens (TRIS, integer i, c) is the record's leading whitespace,
\* then TRIS, TAB, the decimal text of i + base.tris_count, TAB, c.
C4_TrisRenumbered ==
    Merged =>
        \A k \in PassLines(8) :
            LET rec == RecordOf(origin[k])
                indent == SubSeq(rec.content, 1, SkipSpace(rec.content, 1) - 1)
            IN (/\ rec.type = TRIS
                /\ Len(rec.tokens) = 3
                /\ IsDecimalInt(rec.tokens[2])
                /\ ~AddOverflows(stoi(rec.tokens[2]).val, base_info.tris_count))
                   => merged_lines[k] =
                          indent \o TRIS \o TAB
                          \o to_string(stoi(rec.tokens[2]).val + base_info.tris_count)
                          \o TAB \o rec.tokens[3]

\* "<TAB><TAB>TRIS<TAB>5<TAB>3" with base.tris_count = 40 was emitted as
\* "<TAB><TAB>TRIS<TAB>45<TAB>3"
C4_Witness ==
    /\ Merged
    /\ base_info.tris_count = 40
    /\ \E k \in PassLines(8) :
           /\ RecordOf(origin[k]).content = TAB \o TAB \o TRIS \o TAB \o <<"5">> \o TAB \o <<"3">>
           /\ merged_lines[k] = TAB \o TAB \o TRIS \o TAB \o <<"4","5">> \o TAB \o <<"3">>

----------------------------------------------------------------------------
(* C5 *)

\* The two lines appended by pass 7 are adjacent, in the order draw-enable then
\* cockpit, after every line of the base trailing pass and before every line of
\* the addition trailing pass
AttrPairPlaced ==
    \E a \in 1..(Len(origin) - 1) :
        /\ PassLines(7) = {a, a + 1}
        /\ merged_lines[a] = ATTR_draw_enable
        /\ merged_lines[a + 1] = ATTR_cockpit
        /\ \A k \in PassLines(6) : k < a
        /\ \A k \in PassLines(8) : k > a + 1

\* C5 as claimed (checked on merges with a well-formed base header): for any two
\* accepted inputs each attribute line occurs exactly once in the output, the two
\* adjacent and in order, between the base trailing section and the addition
\* trailing section.
C5_AttrExactlyOnce ==
    (Merged /\ BaseHeaderFirst) =>
        /\ Count(merged_lines, ATTR_draw_enable) = 1
        /\ Count(merged_lines, ATTR_cockpit) = 1
        /\ AttrPairPlaced

\* Neither input file holds a line equal to one of the two attribute lines
NoAttrInInputs ==
    \A l \in {ATTR_draw_enable, ATTR_cockpit} :
        Count(base_lines, l) = 0 /\ Count(addition_lines, l) = 0

\* C5 (amended): merge_objects appends the two attribute lines exactly once,
\* adjacent and in order, after every base trailing-section line and before every
\* addition trailing-section line; each occurs exactly once in the output when
\* neither input holds such a line, and once more for every emitted input record
\* that is such a line.
C5_AttrAppendedOnce ==
    Merged =>
        /\ AttrPairPlaced
        /\ NoAttrInInputs =>
               /\ Count(merged_lines, ATTR_draw_enable) = 1
               /\ Count(merged_lines, ATTR_cockpit) = 1
        /\ \A l \in {ATTR_draw_enable, ATTR_cockpit} :
               Count(merged_lines, l) =
                   1 + Cardinality({k \in 1..Len(origin) :
                                        /\ origin[k].src # "attr"
                                        /\ RecordOf(origin[k]).content = l})

\* Both trailing sections are non-empty around the appended pair, and no input
\* holds an attribute line
C5_Witness ==
    /\ Merged
    /\ PassLines(6) # {} /\ PassLines(8) # {}
    /\ NoAttrInInputs
    /\ Count(merged_lines, ATTR_cockpit) = 1

----------------------------------------------------------------------------
(* C6 *)

SameSourceAndCategory(k1, k2) ==
    /\ origin[k1].src = origin[k2].src
    /\ origin[k1].src \in {"base", "addition"}
    /\ Category(RecordOf(origin[k1]).type) = Category(RecordOf(origin[k2]).type)

\* C6 as claimed (checked on merges with a well-formed base header): for records
\* r1 before r2 of one document and one category, every output line derived from
\* r1 precedes every output line derived from r2.
C6_EveryLineInOrder ==
    (Merged /\ BaseHeaderFirst) =>
        \A k1, k2 \in 1..Len(origin) :
            (SameSourceAndCategory(k1, k2) /\ origin[k1].idx < origin[k2].idx) => k1 < k2

\* First output position derived from the record of position k
FirstOf(k) ==
    CHOOSE f \in 1..Len(origin) :
        /\ origin[f].src = origin[k].src /\ origin[f].idx = origin[k].idx
        /\ \A g \in 1..(f - 1) : ~(origin[g].src = origin[k].src /\ origin[g].idx = origin[k].idx)

\* C6 (amended): for records r1 before r2 of one document and one category, the
\* line a pass derives from r1 precedes the line the same pass derives from r2,
\* and the first output line derived from r1 precedes the first derived from r2.
C6_OrderPreserved ==
    Merged =>
        \A k1, k2 \in 1..Len(origin) :
            (SameSourceAndCategory(k1, k2) /\ origin[k1].idx < origin[k2].idx) =>
                /\ origin[k1].pass = origin[k2].pass => k1 < k2
                /\ FirstOf(k1) < FirstOf(k2)

\* Two records of one document and category were emitted, the earlier one also
\* after the later one
C6_Witness ==
    /\ Merged
    /\ \E k1, k2 \in 1..Len(origin) :
           /\ SameSourceAndCategory(k1, k2)
           /\ origin[k1].idx < origin[k2].idx
           /\ k1 > k2
           /\ FirstOf(k1) < FirstOf(k2)

----------------------------------------------------------------------------
(* C7, C8 *)

\* Index of the last IDX/IDX10 record of a document, 0 when there is none
LastIdxRecord(info) ==
    IF \E i \in 1..Len(info.lines) : IsIdxType(info.lines[i].type)
    THEN CHOOSE i \in 1..Len(info.lines) :
             /\ IsIdxType(info.lines[i].type)
             /\ \A j \in (i + 1)..Len(info.lines) : ~IsIdxType(info.lines[j].type)
    ELSE 0

\* Indices of the records after the last IDX/IDX10 record whose type is not
\* IDX/IDX10, in order (none when the document has no IDX/IDX10 record)
AfterLastIdx(info) ==
    LET last == LastIdxRecord(info)
    IN SelectSeq([i \in 1..Len(info.lines) |-> i], LAMBDA i : last > 0 /\ i > last)

\* Record indices of the lines a pass emitted, in output order
PassRecords(pass) ==
    LET o == SelectSeq(origin, LAMBDA x : x.pass = pass)
    IN [k \in 1..Len(o) |-> o[k].idx]

\* C7 (checked on merges with a well-formed base header): the base trailing pass
\* emits exactly the base records positioned after the
\* last base IDX/IDX10 record, in order and unmodified.
C7_BaseTrailingAfterLast ==
    (Merged /\ BaseHeaderFirst) =>
        /\ PassRecords(6) = AfterLastIdx(base_info)
        /\ \A k \in PassLines(6) : merged_lines[k] = base_info.lines[origin[k].idx].content

\* C8 (checked on merges with a well-formed base header): the addition trailing
\* pass emits exactly the addition records positioned
\* after the last addition IDX/IDX10 record, in order, TRIS records through the
\* triangle adjuster with offset base.tris_count and the others unmodified.
C8_AdditionTrailingAfterLast ==
    (Merged /\ BaseHeaderFirst) =>
        /\ PassRecords(8) = AfterLastIdx(addition_info)
        /\ \A k \in PassLines(8) :
               LET rec == addition_info.lines[origin[k].idx]
               IN merged_lines[k] = IF rec.type = TRIS
                                    THEN adjust_tris_line(rec.content, base_info.tris_count)
                                    ELSE rec.content

----------------------------------------------------------------------------
(* C9 *)

\* C9: when no base record is a point-counts header, pass 1 emits no line and
\* both base counts are 0.
C9_NoHeaderNoPass1 ==
    (Merged /\ FirstRecord(base_info, IsHeaderRecord) = 0) =>
        /\ PassLines(1) = {}
        /\ base_info.vt_count = 0
        /\ base_info.tris_count = 0

----------------------------------------------------------------------------
(* C10 *)

\* C10: every line emitted from a base record by the base VT pass, the base
\* IDX/IDX10 pass and the base trailing pass is the raw text of that line of the
\* base file.
C10_BaseRaw ==
    Merged =>
        \A k \in PassLines(2) \cup PassLines(4) \cup PassLines(6) :
            /\ origin[k].src = "base"
            /\ merged_lines[k] = RawLine(base_lines, origin[k].idx)

\* Base VT, IDX and trailing lines were emitted while both offsets were non-zero
\* and the addition had records of its own
C10_Witness ==
    /\ Merged
    /\ base_info.vt_count # 0 /\ base_info.tris_count # 0
    /\ Len(addition_lines) > 3
    /\ PassLines(4) # {} /\ PassLines(6) # {}
    /\ \E k \in PassLines(4) : tokenize(merged_lines[k]) # <<merged_lines[k]>>
                               /\ adjust_indices_line(merged_lines[k], 0) # merged_lines[k]

----------------------------------------------------------------------------
(* C11 *)

\* Output positions derived from the i-th addition record
AdditionLinesOf(i) ==
    {k \in 1..Len(origin) : origin[k].src = "addition" /\ origin[k].idx = i}

\* The lines of the addition VT pass: one per addition VT record, raw, after every
\* line of the base VT pass and before every line of the two IDX passes
AdditionVtPassRaw ==
    /\ \A i \in 1..Len(addition_info.lines) :
           addition_info.lines[i].type = VT =>
               Cardinality(AdditionLinesOf(i) \cap PassLines(3)) = 1
    /\ \A k \in PassLines(3) :
           /\ origin[k].src = "addition"
           /\ RecordOf(origin[k]).type = VT
           /\ merged_lines[k] = RawLine(addition_lines, origin[k].idx)
           /\ \A j \in PassLines(2) : j < k
           /\ \A j \in PassLines(4) \cup PassLines(5) : k < j

\* C11 as claimed: every addition VT record is emitted once, by the addition VT
\* pass, raw, after the base VT lines and before the lines of the IDX passes.
C11_AdditionVtOnce ==
    Merged =>
        /\ AdditionVtPassRaw
        /\ \A i \in 1..Len(addition_info.lines) :
               addition_info.lines[i].type = VT => Cardinality(AdditionLinesOf(i)) = 1

\* C11 (amended): the addition VT pass emits every addition VT record exactly
\* once, raw whatever the base counts are, after every base VT line of the VT
\* pass and before every line of the IDX passes; any other line derived from an
\* addition VT record belongs to the addition trailing pass and is raw as well.
C11_AdditionVtRaw ==
    Merged =>
        /\ AdditionVtPassRaw
        /\ \A k \in 1..Len(origin) :
               (origin[k].src = "addition" /\ RecordOf(origin[k]).type = VT) =>
                   /\ origin[k].pass \in {3, 8}
                   /\ merged_lines[k] = RawLine(addition_lines, origin[k].idx)

\* "VT 9 9 9" was emitted raw between a base VT line and an adjusted addition IDX
\* line while both base counts were non-zero
C11_Witness ==
    /\ Merged
    /\ base_info.vt_count = 100 /\ base_info.tris_count = 40
    /\ PassLines(2) # {} /\ PassLines(5) # {}
    /\ \E k \in PassLines(3) : merged_lines[k] = VT \o SP \o <<"9">> \o SP \o <<"9">> \o SP \o <<"9">>

----------------------------------------------------------------------------
(* C12 *)

\* The helper f was called and has returned
Returned(f) == fn = f /\ ret.done

\* The concatenation of the strings of a sequence
RECURSIVE Concat(_)
Concat(seq) == IF seq = <<>> THEN <<>> ELSE Head(seq) \o Concat(Tail(seq))

\* Positions of a line where a maximal run of non-whitespace characters starts
RunStarts(line) ==
    {i \in 1..Len(line) : ~IsSpace(line[i]) /\ (i = 1 \/ IsSpace(line[i - 1]))}

\* C12: tokenize returns the maximal runs of non-whitespace characters of the
\* line, in order: no token is empty or holds a whitespace character, there is
\* one token per run, the tokens concatenated are the line without its
\* whitespace, a line without a non-whitespace character gives no token, and
\* "IDX 1 2 3" gives IDX, 1, 2, 3.
C12_TokenizeRuns ==
    Returned("tokenize") =>
        /\ \A t \in 1..Len(ret.val) :
               ret.val[t] # <<>> /\ \A c \in 1..Len(ret.val[t]) : ~IsSpace(ret.val[t][c])
        /\ Len(ret.val) = Cardinality(RunStarts(arg))
        /\ Concat(ret.val) = SelectSeq(arg, LAMBDA c : ~IsSpace(c))
        /\ (\A c \in 1..Len(arg) : IsSpace(arg[c])) => ret.val = <<>>
        /\ arg = IDX_1_2_3 => ret.val = <<IDX, <<"1">>, <<"2">>, <<"3">>>>

\* "IDX 1 2 3" was tokenized into four tokens
C12_Witness ==
    /\ Returned("tokenize")
    /\ arg = IDX_1_2_3
    /\ Len(ret.val) = 4

----------------------------------------------------------------------------
(* C13 *)

\* The line has no non-whitespace character
IsBlank(line) == \A c \in 1..Len(line) : IsSpace(line[c])

\* The first maximal run of non-whitespace characters of a non-blank line
FirstRun(line) ==
    LET b == CHOOSE i \in 1..Len(line) :
                 ~IsSpace(line[i]) /\ \A j \in 1..(i - 1) : IsSpace(line[j])
        e == CHOOSE i \in b..Len(line) :
                 /\ \A j \in b..i : ~IsSpace(line[j])
                 /\ (i = Len(line) \/ IsSpace(line[i + 1]))
    IN SubSeq(line, b, e)

\* C13: parse_obj keeps every input line as a record, in file order: there are
\* line_count records, as many as input lines, the i-th record's content is the
\* i-th line, the type of a blank line (empty or whitespace-only) is empty and
\* the type of any other line is its first token.
C13_EveryLineARecord ==
    Returned("parse_obj") =>
        /\ ret.val.line_count = Len(arg)
        /\ Len(ret.val.lines) = Len(arg)
        /\ \A i \in 1..Len(arg) :
               /\ ret.val.lines[i].content = arg[i]
               /\ ret.val.lines[i].type = IF IsBlank(arg[i]) THEN <<>> ELSE FirstRun(arg[i])

----------------------------------------------------------------------------
(* C14 *)

\* Index of the first line whose first token is the header marker, 0 if none
FirstHeaderLine(lines) ==
    IF \E i \in 1..Len(lines) : ~IsBlank(lines[i]) /\ FirstRun(lines[i]) = POINT_COUNTS
    THEN CHOOSE i \in 1..Len(lines) :
             /\ ~IsBlank(lines[i]) /\ FirstRun(lines[i]) = POINT_COUNTS
             /\ \A j \in 1..(i - 1) : IsBlank(lines[j]) \/ FirstRun(lines[j]) # POINT_COUNTS
    ELSE 0

\* The counts that the first header line of a file states: token 1 and token 4
\* when the line has five tokens or more and both parse, else 0 and 0
StatedCounts(lines) ==
    LET h == FirstHeaderLine(lines)
    IN IF h = 0 THEN <<0, 0>>
       ELSE LET tokens == tokenize(lines[h])
            IN IF Len(tokens) >= 5 /\ stoi(tokens[2]).ok /\ stoi(tokens[5]).ok
               THEN <<stoi(tokens[2]).val, stoi(tokens[5]).val>>
               ELSE <<0, 0>>

\* C14: the counts returned by parse_obj are those stated by the first line whose
\* first token is POINT_COUNTS (0 and 0 when it has fewer than five tokens or a
\* field does not parse, or when there is no such line); no other line has a say.
C14_FirstHeaderDecides ==
    Returned("parse_obj") =>
        <<ret.val.vt_count, ret.val.tris_count>> = StatedCounts(arg)

----------------------------------------------------------------------------
(* C15 *)

\* C15: adjust_tris_line returns its line unmodified whenever the line has not
\* exactly three tokens, or its first token is not TRIS, or its second token is
\* not a base-10 integer.
C15_TrisFailSoft ==
    Returned("adjust_tris_line") =>
        LET tokens == tokenize(arg[1])
        IN (Len(tokens) # 3 \/ tokens[1] # TRIS \/ ~IsDecimalInt(tokens[2])) =>
               ret.val = arg[1]

----------------------------------------------------------------------------
(* C16 *)

\* C16: adjust_indices_line returns as many tokens as it was given; every token
\* after the first that is not wholly a base-10 integer is at its position
\* unchanged, and every one that is has the offset added.
C16_NonIntegerPassThrough ==
    Returned("adjust_indices_line") =>
        LET in == tokenize(arg[1])
            out == tokenize(ret.val)
        IN /\ Len(out) = Len(in)
           /\ \A i \in 2..Len(in) :
                  IF IsDecimalInt(in[i])
                  THEN ~AddOverflows(stoi(in[i]).val, arg[2]) =>
                           out[i] = to_string(stoi(in[i]).val + arg[2])
                  ELSE out[i] = in[i]

----------------------------------------------------------------------------
(* C17 *)

\* Some three consecutive characters of the line are a, b, c
HasTriple(line, a, b, c) ==
    \E p \in 1..(Len(line) - 2) : line[p] = a /\ line[p + 1] = b /\ line[p + 2] = c

\* In both files the lines 1 and 2 are the same, or both files are too short to
\* have them
SameMarkerLines(f, g) ==
    \/ Len(f) < 3 /\ Len(g) < 3
    \/ Len(f) >= 3 /\ Len(g) >= 3 /\ f[2] = g[2] /\ f[3] = g[3]

\* C17: validate_obj_format returns true exactly when the file has three lines or
\* more, its line 1 contains "800" and its line 2 contains "OBJ"; the call returns
\* for every file, short ones included, and its value is that of every file with
\* the same lines 1 and 2.
C17_ValidateIff ==
    Returned("validate_obj_format") =>
        /\ ret.val \in BOOLEAN
        /\ ret.val = (/\ Len(arg) >= 3
                      /\ HasTriple(arg[2], "8", "0", "0")
                      /\ HasTriple(arg[3], "O", "B", "J"))
        /\ \A other \in SeqsUpTo(ValPool, 3) :
               SameMarkerLines(arg, other) => validate_obj_format(other) = ret.val

\* A file of four lines whose lines 1 and 2 hold the markers among other
\* characters was accepted
C17_Witness ==
    /\ Returned("validate_obj_format")
    /\ ret.val = TRUE
    /\ Len(arg) = 4
    /\ arg[2] # V800 /\ arg[3] # OBJ

----------------------------------------------------------------------------
(* C18 *)

\* The entry point has returned
Exited == pc = "exited"

\* The file could be read when the call began and validate_obj_format accepts it
GoodInput(f) ==
    /\ f \in DOMAIN disk0
    /\ f \notin env.unreadable
    /\ validate_obj_format(disk0[f])

\* C18: when an input file cannot be read or is rejected by validate_obj_format,
\* kitbash_merge, kitbash_merge_to_file, merge_with_stats and
\* merge_to_file_with_stats never get past validation, return their failure value
\* (-1, false) and perform no file operation: every file, the output, the base
\* and the backup included, is as it was when the call began.
C18_FailureWritesNothing ==
    (fn \in CApi \cup CppApi /\ ~(GoodInput(arg.base) /\ GoodInput(arg.addition))) =>
        /\ pc \in {"read", "loaded", "exited"}
        /\ disk = disk0
        /\ log = <<>>
        /\ Exited => ret.val = FailValue

\* kitbash_merge returned -1 for a rejected base file that it could have backed
\* up and overwritten; no backup exists
C18_Witness ==
    /\ fn = "kitbash_merge"
    /\ Exited
    /\ ret.val = -1
    /\ CanBackup(arg.base) /\ CanWrite(arg.base)
    /\ GoodInput(arg.addition)
    /\ disk0[arg.base] = ShortFile
    /\ ~exists("base.obj.bak")
    /\ last_error = "Invalid OBJ8 format"

----------------------------------------------------------------------------
(* C19 *)

----------------------------------------------------------------------------
(* C20 *)

\* The log entry of a successful create_backup of the base file
BaseBackup == [op |-> "copy", from |-> arg.base, to |-> generate_backup_filename(arg.base)]

\* C20: in every execution of an entry point (the command line tool,
\* kitbash_merge, merge_with_stats, or a merge_to_file call whose output path is
\* the base file), a write of merged content over the base file comes after a
\* successful backup of the base file, the backup then holds what the base file
\* held when the execution began, and while no backup of the base file can be
\* created the base file is never written.
C20_BackupBeforeOverwrite ==
    fn # "" =>
        /\ \A k \in 1..Len(log) :
               (log[k].op = "write" /\ log[k].to = arg.base) =>
                   /\ \E j \in 1..(k - 1) : log[j] = BaseBackup
                   /\ exists(generate_backup_filename(arg.base))
                   /\ disk[generate_backup_filename(arg.base)] = disk0[arg.base]
        /\ ~CanBackup(arg.base) =>
               \A k \in 1..Len(log) : ~(log[k].op = "write" /\ log[k].to = arg.base)

----------------------------------------------------------------------------
(* C26 *)

\* C26: confirm_overwrite returns true only for the answer "Y"; every other
\* answer (a lowercase "y", the empty line, any other text) returns false.
C26_OnlyUppercaseY ==
    Returned("confirm_overwrite") => (ret.val <=> arg = <<"Y">>)

----------------------------------------------------------------------------
(* C21, C22, C27 *)

\* The user was asked and confirm_overwrite returned true before log entry k
ConfirmedBefore(k) == \E j \in 1..(k - 1) : log[j].op = "confirm"

\* C21: in every run of the command line, no file is copied or written
\* unless the user answered the confirmation prompt affirmatively earlier in
\* the same run.
C21_ConfirmBeforeWrite ==
    fn = "main" =>
        \A k \in 1..Len(log) :
            log[k].op \in {"copy", "write"} => ConfirmedBefore(k)

\* C22: with a separate output file (-o FILE, kitbash_merge_to_file,
\* merge_to_file_with_stats), whatever FILE is, the base file and the
\* addition file hold after the call what they held before it.
C22_SeparateOutputPreservesInputs ==
    arg.has_output_file =>
        /\ exists(arg.base) = (arg.base \in DOMAIN disk0)
        /\ exists(arg.base) => disk[arg.base] = disk0[arg.base]
        /\ exists(arg.addition) = (arg.addition \in DOMAIN disk0)
        /\ exists(arg.addition) => disk[arg.addition] = disk0[arg.addition]

\* The command line without -o reached the prompt and the answer was taken
\* as a refusal
Refused ==
    /\ fn = "main" /\ ~arg.has_output_file
    /\ arg.base \in DOMAIN disk0 /\ arg.addition \in DOMAIN disk0
    /\ ~confirm_overwrite(arg.answer)

----------------------------------------------------------------------------
(* C23 *)

\* C23: whenever a library call reports failure (non-zero from the C
\* functions, false from the C++ functions), kitbash_get_last_error() then
\* returns a non-empty message that describes this call, not an earlier one.
C23_FailureSetsLastError ==
    (Exited /\ fn \in CApi \cup CppApi /\ ret.val = FailValue) =>
        last_error \notin {"", EarlierError}

----------------------------------------------------------------------------
(* C24 *)

\* C24: for any input lines, the result of parse_obj has vt_count >= 0 and
\* tris_count >= 0.
C24_CountsNonNegative ==
    Returned("parse_obj") =>
        (ret.val.vt_count >= 0 /\ ret.val.tris_count >= 0)

----------------------------------------------------------------------------
(* C25 *)

\* merge_with_stats or merge_to_file_with_stats returned true
StatsReturned == Exited /\ fn \in CppApi /\ ret.val = TRUE

\* The header lines of a file: the lines whose first token is POINT_COUNTS
HeaderLines(lines) ==
    {k \in 1..Len(lines) :
        tokenize(lines[k]) # <<>> /\ tokenize(lines[k])[1] = POINT_COUNTS}

\* The file has one header line and its vertex and triangle fields are vt, tris
HeaderStates(lines, vt, tris) ==
    /\ Cardinality(HeaderLines(lines)) = 1
    /\ \A k \in HeaderLines(lines) :
           /\ Len(tokenize(lines[k])) >= 5
           /\ tokenize(lines[k])[2] = to_string(vt)
           /\ tokenize(lines[k])[5] = to_string(tris)

\* C25: after merge_with_stats or merge_to_file_with_stats returns true,
\* original_* and added_* hold the counts of the base and of the addition,
\* the final vertex and triangle counts are the sums, they are the vertex
\* and triangle fields of the header line written to the output, and
\* final_line_count is the number of lines written.
C25_StatsDescribeOutput ==
    StatsReturned =>
        /\ stats.original_vt_count = parse_obj(disk0[arg.base]).vt_count
        /\ stats.original_tris_count = parse_obj(disk0[arg.base]).tris_count
        /\ stats.original_line_count = Len(disk0[arg.base])
        /\ stats.added_vt_count = parse_obj(disk0[arg.addition]).vt_count
        /\ stats.added_tris_count = parse_obj(disk0[arg.addition]).tris_count
        /\ stats.added_line_count = Len(disk0[arg.addition])
        /\ stats.final_vt_count = stats.original_vt_count + stats.added_vt_count
        /\ stats.final_tris_count = stats.original_tris_count + stats.added_tris_count
        /\ HeaderStates(disk[arg.output], stats.final_vt_count, stats.final_tris_count)
        /\ stats.final_line_count = Len(disk[arg.output])

----------------------------------------------------------------------------
(* C28, C29 *)

\* The document has a point-counts header whose vertex count is the number
\* of its VT records
HeaderCountsVts(info) ==
    \E i \in 1..Len(info.lines) :
        /\ IsHeaderRecord(info.lines[i])
        /\ Len(info.lines[i].tokens) >= 5
        /\ IsDecimalInt(info.lines[i].tokens[2])
        /\ stoi(info.lines[i].tokens[2]).val = Len(VtRecords(info))

\* Output positions of the lines whose first token is VT, in output order
OutVtLines ==
    SelectSeq([k \in 1..Len(merged_lines) |-> k],
              LAMBDA k : tokenize(merged_lines[k]) # <<>>
                         /\ tokenize(merged_lines[k])[1] = VT)

\* C28: if base has a header whose vertex count is the number of base VT
\* records, then every integer reference r of an addition IDX/IDX10 record
\* that designates the r-th (0-based) addition VT record satisfies: the
\* (r + base.vt_count)-th (0-based) VT line of the merged output is that
\* same addition VT record.
C28_ReferencesFollowVts ==
    (Merged /\ HeaderCountsVts(base_info)) =>
        \A j \in 1..Len(IdxRecords(addition_info)) :
            LET in == addition_info.lines[IdxRecords(addition_info)[j]].tokens
            IN \A i \in 2..Len(in) :
                   (/\ IsDecimalInt(in[i])
                    /\ stoi(in[i]).val >= 0
                    /\ stoi(in[i]).val < Len(VtRecords(addition_info)))
                   => LET p == stoi(in[i]).val + base_info.vt_count + 1
                      IN /\ p <= Len(OutVtLines)
                         /\ origin[OutVtLines[p]].src = "addition"
                         /\ origin[OutVtLines[p]].idx =
                                VtRecords(addition_info)[stoi(in[i]).val + 1]

\* Output positions of the lines whose first token is POINT_COUNTS
OutHeaderLines == HeaderLines(merged_lines)

\* C29: if in each input the header's vertex count is the number of the
\* input's VT records, the number of output lines whose first token is VT is
\* the vertex count written in the output's point-counts header.
C29_HeaderCountsOutputVts ==
    (Merged /\ HeaderCountsVts(base_info) /\ HeaderCountsVts(addition_info)) =>
        /\ OutHeaderLines # {}
        /\ \A k \in OutHeaderLines :
               /\ Len(tokenize(merged_lines[k])) >= 2
               /\ tokenize(merged_lines[k])[2] = to_string(Len(OutVtLines))

----------------------------------------------------------------------------
(* C30 *)

\* The token is an integer written as std::to_string writes it
IsCanonicalInt(tok) == IsDecimalInt(tok) /\ tok = to_string(stoi(tok).val)

\* The reference tokens of the adjusted line: tokens 2.. of an IDX/IDX10
\* line, token 2 of a TRIS line
RefTokens ==
    LET tokens == tokenize(arg.line)
    IN IF fn = "adjust_tris_line" THEN {tokens[2]}
       ELSE {tokens[i] : i \in 2..Len(tokens)}

\* The line is its tokens joined by single tabs, after its indentation if it
\* is a TRIS line
TabJoined ==
    LET tokens == tokenize(arg.line)
    IN IF fn = "adjust_tris_line"
       THEN arg.line = substr0(arg.line, find(arg.line, TRIS)) \o JoinTokens(tokens, TAB)
       ELSE arg.line = JoinTokens(tokens, TAB)

\* The line was adjusted with a then b, with a + b and with 0
Composed == fn \in {"adjust_indices_line", "adjust_tris_line"} /\ ret.done

\* C30 as stated: on IDX/IDX10 lines whose references are base-10 integers
\* and on TRIS lines of three tokens, adjusting by a and then by b equals
\* adjusting by a + b, and offset 0 returns an already tab-joined line
\* unchanged.
C30_ComposeAndZero ==
    (Composed /\ \A tok \in RefTokens : IsDecimalInt(tok)) =>
        /\ ret.val.second = ret.val.direct
        /\ TabJoined => ret.val.zero = arg.line

\* C30 amended: the same, offset 0 returning a tab-joined line unchanged when
\* its references are written as std::to_string writes them.
C30_OffsetsCompose ==
    (Composed /\ \A tok \in RefTokens : IsDecimalInt(tok)) =>
        /\ ret.val.second = ret.val.direct
        /\ (TabJoined /\ \A tok \in RefTokens : IsCanonicalInt(tok))
               => ret.val.zero = arg.line
        /\ adjust_indices_line(ret.val.first, 0) = ret.val.first
               \/ fn = "adjust_tris_line"
        /\ adjust_tris_line(ret.val.first, 0) = ret.val.first
               \/ fn = "adjust_indices_line"

\* "IDX<TAB>7<TAB>12" adjusted by 1 and then by 100 is "IDX<TAB>108<TAB>113",
\* and by 0 is itself
C30_Witness ==
    /\ Composed /\ fn = "adjust_indices_line"
    /\ arg = [line |-> IDX \o TAB \o <<"7">> \o TAB \o <<"1","2">>, a |-> 1, b |-> 100]
    /\ ret.val.second = IDX \o TAB \o <<"1","0","8">> \o TAB \o <<"1","1","3">>
    /\ ret.val.direct = ret.val.second
    /\ ret.val.zero = arg.line

=============================================================================
